---- MODULE Spec2Model ----
(***************************************************************************)
(* Playback controller of the ISL sign slideshow                           *)
(* (frontend/src/components/SignDisplay.jsx) together with the page that   *)
(* hands it translation results (frontend/src/pages/Home.jsx).             *)
(* The input form that requests the translations                           *)
(* (frontend/src/components/SpeechInput.jsx) and one run of the            *)
(* translation pipeline behind it are modelled beside it.                  *)
(*                                                                         *)
(* One action models one event handler or timer callback of the component  *)
(* together with the re-render and the effects (cleanup, then body) that   *)
(* React runs for it.  Indices are 0-based as in the source; a sign         *)
(* sequence s is a TLA+ sequence, and the source's signs[i] is s[i + 1].   *)
(***************************************************************************)
EXTENDS Naturals, Integers, Sequences, FiniteSets, Bags, TLC

VARIABLES
    data,          \* Home.result, the `data` prop of SignDisplay
    currentIndex,  \* useState(0)
    isPlaying,     \* useState(false)
    speed,         \* useState(1000)
    intervalRef,   \* intervalRef.current: 0 for null, else a timer id
    intervals,     \* the live setInterval timers of the page
    timeouts,      \* the pending setTimeout timers of the page (a bag)
    text,          \* SpeechInput: useState('') of the input field
    loading,       \* Home: useState(false)
    pending,       \* number of fetch calls of handleSubmit awaiting their
                   \* answer; they are numbered 1 .. pending, oldest first
    newest,        \* history: what became of the most recently submitted request
    pipeline,      \* one run of the translation pipeline: stage, tokens, unit, signs
    h              \* history: last operation, state before it, counters

vars == <<data, currentIndex, isPlaying, speed, intervalRef, intervals, timeouts,
          text, loading, pending, newest, pipeline, h>>

\* The state of the input form and of its requests
form == <<text, loading, pending, newest>>

----------------------------------------------------------------------------
(* Bounds of the model *)

MaxLen == 3             \* longest sign sequence a response carries
MaxReplayTimeouts == 1  \* most replay one-shots pending at once
MaxText == 2            \* longest text typed into the input field
MaxRequests == 2        \* most requests in flight at once
MaxTokens == 4          \* longest annotated token sequence given to the pipeline
MaxWord == 3            \* longest single word given to the letter fallback

----------------------------------------------------------------------------
(* Sign sequences and translation results *)

SignTypes == {"word", "letter", "space"}

Speeds == {2000, 1000, 600, 400}

RECURSIVE SeqsUpTo(_)
SeqsUpTo(n) ==
    IF n = 0 THEN {<<>>}
    ELSE LET shorter == SeqsUpTo(n - 1)
         IN shorter \cup {Append(s, t) : s \in {x \in shorter : Len(x) = n - 1}, t \in SignTypes}

\* signs[i] of the source, for 0 <= i < signs.length
At(s, i) == s[i + 1]

IsVisual(s, i) == i >= 0 /\ i < Len(s) /\ At(s, i) # "space"

\* The resolver's output: each token gives one Word sign or a run of Letter
\* signs, and one Space separates the signs of two tokens.
WellFormed(s) ==
    /\ Len(s) > 0 => (At(s, 0) # "space" /\ At(s, Len(s) - 1) # "space")
    /\ \A i \in 0 .. Len(s) - 2 :
          /\ ~(At(s, i) = "space" /\ At(s, i + 1) = "space")
          /\ At(s, i) = "word" => At(s, i + 1) = "space"
          /\ At(s, i + 1) = "word" => At(s, i) = "space"

SignSeqs == {s \in SeqsUpTo(MaxLen) : WellFormed(s)}

NoData == [kind |-> "null", signs |-> <<>>]

\* What res.json() can hand to onResult: a translation result, or an error
\* body that carries no `signs` field.
Responses ==
    {[kind |-> "result", signs |-> s] : s \in SignSeqs}
        \cup {[kind |-> "error", signs |-> <<>>]}

\* const signs = data?.signs || []
Signs(d) == IF d.kind = "result" THEN d.signs ELSE <<>>

\* data?.signs || [] is a fresh array on every render when there is no
\* signs field, so an effect that depends on `signs` sees it changed.
FreshSignsEachRender(d) == d.kind # "result"

----------------------------------------------------------------------------
(* The index arithmetic of the updaters *)

\* while (next < signs.length && signs[next].type === 'space') next++
RECURSIVE SkipForward(_, _)
SkipForward(s, next) ==
    IF next < Len(s) /\ At(s, next) = "space" THEN SkipForward(s, next + 1) ELSE next

\* Variant of SkipBackward with the test on the sign inverted.
RECURSIVE SkipBackwardOverSigns(_, _)
SkipBackwardOverSigns(s, next) ==
    IF next > 0 /\ At(s, next) # "space" THEN SkipBackwardOverSigns(s, next - 1) ELSE next

\* while (next > 0 && signs[next].type === 'space') next--
RECURSIVE SkipBackward(_, _)
SkipBackward(s, next) ==
    IF next > 0 /\ At(s, next) = "space" THEN SkipBackward(s, next - 1) ELSE next

\* Variant of NextSignUpdater that steps by one without skipping Space signs.
NextSignUpdaterNoSkip(s, prev) ==
    IF prev >= Len(s) - 1
    THEN [index |-> prev, stop |-> TRUE]
    ELSE [index |-> prev + 1, stop |-> FALSE]

\* Variant of NextSignUpdater that forgets setIsPlaying(false) at the end.
NextSignUpdaterNoStop(s, prev) ==
    IF prev >= Len(s) - 1
    THEN [index |-> prev, stop |-> FALSE]
    ELSE LET next == SkipForward(s, prev + 1)
         IN [index |-> IF next >= Len(s) THEN prev ELSE next, stop |-> FALSE]

\* The updater of nextSign: the new index, and whether it called
\* setIsPlaying(false).
NextSignUpdater(s, prev) ==
    IF prev >= Len(s) - 1
    THEN [index |-> prev, stop |-> TRUE]
    ELSE LET next == SkipForward(s, prev + 1)
         IN [index |-> IF next >= Len(s) THEN prev ELSE next, stop |-> FALSE]

\* Variant of PrevSignUpdater that steps by one without skipping Space signs.
PrevSignUpdaterNoSkip(s, prev) ==
    IF prev <= 0 THEN 0 ELSE prev - 1

\* Variant of PrevSignUpdater without the clamp at index 0.
PrevSignUpdaterNoClamp(s, prev) ==
    SkipBackward(s, prev - 1)

\* The updater of prevSign.
PrevSignUpdater(s, prev) ==
    IF prev <= 0 THEN 0 ELSE SkipBackward(s, prev - 1)

\* Variant of TickUpdater that steps by one without skipping Space signs.
TickUpdaterNoSkip(s, prev) ==
    IF prev + 1 >= Len(s)
    THEN [index |-> prev, stop |-> TRUE]
    ELSE [index |-> prev + 1, stop |-> FALSE]

\* Variant of TickUpdater that keeps playing at the end of the sequence.
TickUpdaterNoStop(s, prev) ==
    LET next == SkipForward(s, prev + 1)
    IN IF next >= Len(s)
       THEN [index |-> prev, stop |-> FALSE]
       ELSE [index |-> next, stop |-> FALSE]

\* The updater inside the interval callback: the new index, and whether it
\* called setIsPlaying(false) and clearInterval(intervalRef.current).
TickUpdater(s, prev) ==
    LET next == SkipForward(s, prev + 1)
    IN IF next >= Len(s)
       THEN [index |-> prev, stop |-> TRUE]
       ELSE [index |-> next, stop |-> FALSE]

----------------------------------------------------------------------------
(* The component's state as one record, and the steps that transform it *)

Comp ==
    [currentIndex |-> currentIndex, isPlaying |-> isPlaying, speed |-> speed,
     intervalRef |-> intervalRef, intervals |-> intervals]

\* clearInterval(id): an id that is null or no longer live clears nothing.
ClearInterval(c, id) ==
    [c EXCEPT !.intervals = {iv \in @ : iv.id # id}]

\* Timer ids are never reused while something still refers to them.
FreshId(c) ==
    CHOOSE id \in 1 .. Cardinality(c.intervals) + 2 :
        /\ id # c.intervalRef
        /\ \A iv \in c.intervals : iv.id # id
        /\ \A j \in 1 .. id - 1 : j = c.intervalRef \/ \E iv \in c.intervals : iv.id = j

\* intervalRef.current = setInterval(callback, speed): the callback closes
\* over the `signs` of the render that ran the effect.
SetInterval(c, s) ==
    LET id == FreshId(c)
    IN [c EXCEPT !.intervals = @ \cup {[id |-> id, signs |-> s, speed |-> c.speed, stale |-> FALSE]},
                 !.intervalRef = id]

\* Variant of IntervalCleanup that clears nothing.
IntervalCleanupMissing(c) == c

\* Cleanup of the interval effect.
IntervalCleanup(c) ==
    IF c.intervalRef # 0 THEN ClearInterval(c, c.intervalRef) ELSE c

\* Variant of IntervalEffect that starts no timer.
IntervalEffectIdle(c, s) == c

\* Body of the interval effect.
IntervalEffect(c, s) ==
    IF c.isPlaying /\ Len(s) > 0 THEN SetInterval(c, s) ELSE c

\* Variant of ResetEffect that forgets setIsPlaying(false).
ResetEffectKeepsPlaying(c) ==
    [c EXCEPT !.currentIndex = 0]

\* Body of the reset effect.
ResetEffect(c) ==
    [c EXCEPT !.currentIndex = 0, !.isPlaying = FALSE]

\* The re-render that follows state updates old -> new under unchanged data,
\* and its effects: the interval effect reruns when isPlaying, speed or the
\* identity of `signs` changed.  No state change, no render.
Commit(old, new, d) ==
    LET rendered == \/ new.currentIndex # old.currentIndex
                    \/ new.isPlaying # old.isPlaying
                    \/ new.speed # old.speed
        depsChanged == \/ new.isPlaying # old.isPlaying
                       \/ new.speed # old.speed
                       \/ FreshSignsEachRender(d)
    IN IF rendered /\ depsChanged
       THEN IntervalEffect(IntervalCleanup(new), Signs(d))
       ELSE new

\* Variant of play that also rewinds to the first sign.
playFromStart(c) == [c EXCEPT !.isPlaying = TRUE, !.currentIndex = 0]

play(c) == [c EXCEPT !.isPlaying = TRUE]

pause(c) ==
    [IntervalCleanup(c) EXCEPT !.isPlaying = FALSE, !.intervalRef = 0]

\* Variant of goToSign that also stops playback.
goToSignPausing(c, index) == [c EXCEPT !.currentIndex = index, !.isPlaying = FALSE]

goToSign(c, index) == [c EXCEPT !.currentIndex = index]

nextSign(c, s) ==
    LET u == NextSignUpdater(s, c.currentIndex)
    IN [c EXCEPT !.currentIndex = u.index,
                 !.isPlaying = IF u.stop THEN FALSE ELSE @]

prevSign(c, s) ==
    [c EXCEPT !.currentIndex = PrevSignUpdater(s, c.currentIndex)]

\* Variant of replay that forgets setCurrentIndex(0).
replayKeepsIndex(c) == pause(c)

\* The state updates of replay; its setTimeout is ReplaySchedule.
replay(c) == goToSign(pause(c), 0)

\* The interval callback of timer iv.
tick(c, iv) ==
    LET u == TickUpdater(iv.signs, c.currentIndex)
        moved == [c EXCEPT !.currentIndex = u.index]
    IN IF u.stop
       THEN [ClearInterval(moved, moved.intervalRef) EXCEPT !.isPlaying = FALSE]
       ELSE moved

----------------------------------------------------------------------------
(* One-shot timers: the bag of pending setTimeout callbacks.  `stale` marks *)
(* a timer that was scheduled before the latest result was loaded.          *)

AutoStart(st) == [kind |-> "auto", stale |-> st]
ReplayStart(st) == [kind |-> "replay", stale |-> st]

Pending(tm, kind) == CopiesIn([kind |-> kind, stale |-> FALSE], tm)
                         + CopiesIn([kind |-> kind, stale |-> TRUE], tm)

\* Every pending timer now predates the latest load.
MarkStale(tm) ==
    LET kinds == {e.kind : e \in BagToSet(tm)}
    IN [e \in {[kind |-> k, stale |-> TRUE] : k \in kinds} |-> Pending(tm, e.kind)]

\* Variant of AutoStartCleanup that returns no cleanup function.
AutoStartCleanupMissing(tm, prevData) == tm

\* Cleanup of the auto-start effect: clearTimeout(t), present only when the
\* previous run of the effect scheduled t.
AutoStartCleanup(tm, prevData) ==
    IF prevData.kind # "null" /\ Len(Signs(prevData)) > 0
    THEN tm (-) SetToBag({AutoStart(TRUE)})
    ELSE tm

\* Body of the auto-start effect.
AutoStartEffect(tm, d) ==
    IF d.kind # "null" /\ Len(Signs(d)) > 0
    THEN tm (+) SetToBag({AutoStart(FALSE)})
    ELSE tm

\* setTimeout(() => play(), 300) of replay
ReplaySchedule(tm) == tm (+) SetToBag({ReplayStart(FALSE)})

----------------------------------------------------------------------------
(* History *)

Snapshot == [currentIndex |-> currentIndex, isPlaying |-> isPlaying, speed |-> speed]

\* The controls are rendered only when a result with signs is displayed.
HasControls == data.kind # "null" /\ Len(Signs(data)) > 0

\* op: the operation's name; staleTimer: the operation was the callback of a
\* timer scheduled before the latest load.  paused: a pause command was given
\* and no play, replay or load since.  quiet: a result was loaded and since
\* then no user command was given and no replay one-shot fired.
Record(op, staleTimer) ==
    [op |-> op,
     paused |-> IF op = "pause" THEN TRUE
                ELSE IF op \in {"play", "replay", "load"} THEN FALSE
                ELSE h.paused,
     quiet |-> IF op = "load" THEN TRUE
               ELSE IF op \in {"tick", "autoStart", "type", "submit", "submitBlank", "alert"}
                    THEN h.quiet
               ELSE FALSE,
     pre |-> Snapshot,
     stale |-> staleTimer,
     autoFired |-> IF op = "load" THEN 0
                   ELSE IF op = "autoStart" THEN h.autoFired + 1
                   ELSE h.autoFired,
     ticks |-> IF op = "tick" THEN h.ticks + 1 ELSE 0]

Apply(c, op, staleTimer) ==
    /\ currentIndex' = c.currentIndex
    /\ isPlaying' = c.isPlaying
    /\ speed' = c.speed
    /\ intervalRef' = c.intervalRef
    /\ intervals' = c.intervals
    /\ h' = Record(op, staleTimer)

----------------------------------------------------------------------------
(* The input form: SpeechInput.jsx *)

Chars == {" ", "a"}

RECURSIVE TextsUpTo(_)
TextsUpTo(n) ==
    IF n = 0 THEN {<<>>}
    ELSE LET shorter == TextsUpTo(n - 1)
         IN shorter \cup {Append(s, ch) : s \in {x \in shorter : Len(x) = n - 1}, ch \in Chars}

Texts == TextsUpTo(MaxText)

IsWhitespace(ch) == ch = " "

RECURSIVE TrimStart(_)
TrimStart(s) ==
    IF s # <<>> /\ IsWhitespace(Head(s)) THEN TrimStart(Tail(s)) ELSE s

RECURSIVE TrimEnd(_)
TrimEnd(s) ==
    IF s # <<>> /\ IsWhitespace(s[Len(s)]) THEN TrimEnd(SubSeq(s, 1, Len(s) - 1)) ELSE s

\* Variant of Trim that removes nothing.
TrimNothing(s) == s

\* String.prototype.trim
Trim(s) == TrimEnd(TrimStart(s))

\* No request was submitted yet.  status: the most recently submitted
\* request is in flight, answered or failed; shown: the displayed result is
\* its answer.
NoRequest == [status |-> "none", shown |-> FALSE]

\* The k-th request in flight is the most recently submitted one.
IsNewest(k) == k = pending /\ newest.status = "inflight"

----------------------------------------------------------------------------
(* The translation pipeline behind /api/process-text, as the design         *)
(* document describes it: Grammar Transformer (4.2), Sign Resolver (4.3)    *)

Letters == {"b", "e", "h", "i", "o", "s", "w"}
Digits == {"2"}

\* Upper-casing of a character; digits and the apostrophe have no case.
Upper(ch) ==
    CASE ch = "b" -> "B" [] ch = "e" -> "E" [] ch = "h" -> "H" [] ch = "i" -> "I"
      [] ch = "o" -> "O" [] ch = "s" -> "S" [] ch = "w" -> "W" [] OTHER -> ch

UpperSeq(w) == [i \in 1 .. Len(w) |-> Upper(w[i])]

\* A-Z and 0-9, the characters the letter fallback retains
IsAlphanumeric(ch) == ch \in {Upper(l) : l \in Letters} \cup Digits

AnnotatedToken(surface, lemma) == [surface |-> surface, lemma |-> lemma]

\* The words the pipeline is run on: a copula that is a stop word by its
\* lemma only, two WH-words, a word of the General dataset, a word of the
\* Training dataset, a word of neither, and a token of punctuation only.
Vocabulary ==
    {AnnotatedToken(<<"i", "s">>, <<"b", "e">>),
     AnnotatedToken(<<"w", "h", "o">>, <<"w", "h", "o">>),
     AnnotatedToken(<<"h", "o", "w">>, <<"h", "o", "w">>),
     AnnotatedToken(<<"w", "e">>, <<"w", "e">>),
     AnnotatedToken(<<"h", "e">>, <<"h", "e">>),
     AnnotatedToken(<<"b", "'", "2">>, <<"b", "'", "2">>),
     AnnotatedToken(<<"'">>, <<"'">>)}

RECURSIVE TokenSeqsUpTo(_)
TokenSeqsUpTo(n) ==
    IF n = 0 THEN {<<>>}
    ELSE LET shorter == TokenSeqsUpTo(n - 1)
         IN shorter \cup {Append(s, tk) : s \in {x \in shorter : Len(x) = n - 1}, tk \in Vocabulary}

\* The Annotator's output is never empty.
TokenSeqs == TokenSeqsUpTo(MaxTokens) \ {<<>>}

\* Lemmas of the grammatical function words with no ISL equivalent
StopLemmas == {<<"b", "e">>, <<"d", "o">>, <<"h", "a", "v", "e">>, <<"t", "h", "e">>, <<"a">>, <<"a", "n">>}

WhWords == {<<"w", "h", "a", "t">>, <<"w", "h", "o">>, <<"w", "h", "e", "r", "e">>,
            <<"w", "h", "e", "n">>, <<"w", "h", "y">>, <<"h", "o", "w">>,
            <<"w", "h", "i", "c", "h">>}

IsStopWord(tk) == tk.lemma \in StopLemmas

IsWhWord(tk) == tk.surface \in WhWords \/ tk.lemma \in WhWords

IsRetained(tk) == ~IsStopWord(tk)

IsNotWhWord(tk) == ~IsWhWord(tk)

\* Step 1: stop-word elision
Elide(ts) == SelectSeq(ts, IsRetained)

\* Variant of Relocate that puts the WH-words first.
RelocateToFront(ts) == SelectSeq(ts, IsWhWord) \o SelectSeq(ts, IsNotWhWord)

\* Step 2: WH relocation
Relocate(ts) == SelectSeq(ts, IsNotWhWord) \o SelectSeq(ts, IsWhWord)

\* Steps 1 and 2 in order; step 3 permutes nothing further.
GrammarTransform(ts) == Relocate(Elide(ts))

General == {<<"W", "E">>, <<"W", "H", "O">>}
Training == {<<"H", "E">>, <<"H", "O", "W">>, <<"W", "E">>}

\* Lookup key: the upper-cased lemma
Key(tk) == UpperSeq(tk.lemma)

WordSign(tk) == [type |-> "word", label |-> Key(tk)]
LetterSign(ch) == [type |-> "letter", label |-> <<ch>>]
SpaceSign == [type |-> "space", label |-> <<" ">>]

\* Variant of LetterSigns that retains every character.
RECURSIVE LetterSignsKeepAll(_)
LetterSignsKeepAll(w) ==
    IF w = <<>> THEN <<>>
    ELSE <<LetterSign(Upper(Head(w)))>> \o LetterSignsKeepAll(Tail(w))

\* Letter fallback: one Letter sign per retained character of the surface
RECURSIVE LetterSigns(_)
LetterSigns(w) ==
    IF w = <<>> THEN <<>>
    ELSE LET ch == Upper(Head(w))
         IN (IF IsAlphanumeric(ch) THEN <<LetterSign(ch)>> ELSE <<>>) \o LetterSigns(Tail(w))

\* The signs of one token: General dataset, else Training, else letters.
TokenSigns(tk) ==
    IF Key(tk) \in General \cup Training THEN <<WordSign(tk)>>
    ELSE LetterSigns(tk.surface)

\* Variant of ResolveSigns that puts a Space after every token but the last.
RECURSIVE ResolveSignsSpaceAfterEach(_)
ResolveSignsSpaceAfterEach(unit) ==
    IF unit = <<>> THEN <<>>
    ELSE TokenSigns(Head(unit))
             \o (IF Tail(unit) # <<>> THEN <<SpaceSign>> ELSE <<>>)
             \o ResolveSignsSpaceAfterEach(Tail(unit))

\* The expanded sign sequence: the signs of the tokens in order, one Space
\* between the signs of one token and the signs of the next.
RECURSIVE ResolveSigns(_)
ResolveSigns(unit) ==
    IF unit = <<>> THEN <<>>
    ELSE LET first == TokenSigns(Head(unit))
             rest == ResolveSigns(Tail(unit))
         IN IF first = <<>> THEN rest
            ELSE IF rest = <<>> THEN first
            ELSE first \o <<SpaceSign>> \o rest

\* The sign types, which is what the playback controller reads.
SignTypesOf(ss) == [i \in 1 .. Len(ss) |-> ss[i].type]

NoRun == [stage |-> "none", tokens |-> <<>>, unit |-> <<>>, signs |-> <<>>]

----------------------------------------------------------------------------
(* Initial state: Home mounted with result = null, SignDisplay mounted *)

Init ==
    /\ data = NoData
    /\ currentIndex = 0
    /\ isPlaying = FALSE
    /\ speed = 1000
    /\ intervalRef = 0
    /\ intervals = {}
    /\ timeouts = EmptyBag
    /\ text = <<>>
    /\ loading = FALSE
    /\ pending = 0
    /\ newest = NoRequest
    /\ pipeline = NoRun
    /\ h = [op |-> "init", paused |-> FALSE, quiet |-> FALSE,
            pre |-> [currentIndex |-> 0, isPlaying |-> FALSE, speed |-> 1000],
            stale |-> FALSE, autoFired |-> 0, ticks |-> 0]

----------------------------------------------------------------------------
(* Operations *)

\* onResult(data): Home sets result, SignDisplay renders with the new data;
\* cleanups of the interval and auto-start effects, then the three effects,
\* then the re-render caused by the reset effect's state updates.
OnResult(d) ==
    LET c0 == [Comp EXCEPT !.intervals = {[iv EXCEPT !.stale = TRUE] : iv \in @}]
        c1 == IntervalEffect(IntervalCleanup(c0), Signs(d))
        c2 == ResetEffect(c1)
        c3 == Commit(c1, c2, d)
    IN /\ data' = d
       /\ timeouts' = AutoStartEffect(AutoStartCleanup(MarkStale(timeouts), data), d)
       /\ Apply(c3, "load", FALSE)

\* A result reaches the page
Load(d) ==
    /\ OnResult(d)
    /\ UNCHANGED <<form, pipeline>>

\* Play button (shown while not playing)
Play ==
    /\ HasControls
    /\ ~isPlaying
    /\ Apply(Commit(Comp, play(Comp), data), "play", FALSE)
    /\ UNCHANGED <<data, timeouts, form, pipeline>>

\* Pause button (shown while playing)
Pause ==
    /\ HasControls
    /\ isPlaying
    /\ Apply(Commit(Comp, pause(Comp), data), "pause", FALSE)
    /\ UNCHANGED <<data, timeouts, form, pipeline>>

\* Next button
NextSign ==
    /\ HasControls
    /\ Apply(Commit(Comp, nextSign(Comp, Signs(data)), data), "next", FALSE)
    /\ UNCHANGED <<data, timeouts, form, pipeline>>

\* Previous button
PrevSign ==
    /\ HasControls
    /\ Apply(Commit(Comp, prevSign(Comp, Signs(data)), data), "prev", FALSE)
    /\ UNCHANGED <<data, timeouts, form, pipeline>>

\* A chip of the timeline: only non-space signs are clickable
GoToSign(idx) ==
    /\ HasControls
    /\ IsVisual(Signs(data), idx)
    /\ Apply(Commit(Comp, goToSign(Comp, idx), data), "seek", FALSE)
    /\ UNCHANGED <<data, timeouts, form, pipeline>>

\* The seek command as goToSign accepts it: any index, checked nowhere.
Seek(index) ==
    /\ HasControls
    /\ Apply(Commit(Comp, goToSign(Comp, index), data), "seek", FALSE)
    /\ UNCHANGED <<data, timeouts, form, pipeline>>

\* The speed select
SetSpeed(ms) ==
    /\ HasControls
    /\ ms # speed
    /\ Apply(Commit(Comp, [Comp EXCEPT !.speed = ms], data), "setSpeed", FALSE)
    /\ UNCHANGED <<data, timeouts, form, pipeline>>

\* Replay button
Replay ==
    /\ HasControls
    /\ Pending(timeouts, "replay") < MaxReplayTimeouts
    /\ Apply(Commit(Comp, replay(Comp), data), "replay", FALSE)
    /\ timeouts' = ReplaySchedule(timeouts)
    /\ UNCHANGED <<data, form, pipeline>>

\* The callback of a live interval
Tick(iv) ==
    /\ iv \in intervals
    /\ Apply(Commit(Comp, tick(Comp, iv), data), "tick", iv.stale)
    /\ UNCHANGED <<data, timeouts, form, pipeline>>

\* A pending one-shot (auto-start or replay) fires: play()
TimeoutFire(t) ==
    /\ BagIn(t, timeouts)
    /\ timeouts' = timeouts (-) SetToBag({t})
    /\ Apply(Commit(Comp, play(Comp), data),
             IF t.kind = "auto" THEN "autoStart" ELSE "replayStart", t.stale)
    /\ UNCHANGED <<data, form, pipeline>>

\* Typing into the input field (or a speech transcript): setText
SetText(txt) ==
    /\ txt # text
    /\ text' = txt
    /\ h' = Record("type", FALSE)
    /\ UNCHANGED <<data, currentIndex, isPlaying, speed, intervalRef, intervals,
                   timeouts, loading, pending, newest, pipeline>>

\* handleSubmit up to its await: blank text returns at once, other text
\* sets loading and sends the request.
Submit ==
    IF Trim(text) = <<>>
    THEN /\ h' = Record("submitBlank", FALSE)
         /\ UNCHANGED <<data, currentIndex, isPlaying, speed, intervalRef, intervals,
                        timeouts, form, pipeline>>
    ELSE /\ pending < MaxRequests
         /\ loading' = TRUE
         /\ pending' = pending + 1
         /\ newest' = [status |-> "inflight", shown |-> FALSE]
         /\ h' = Record("submit", FALSE)
         /\ UNCHANGED <<data, currentIndex, isPlaying, speed, intervalRef, intervals,
                        timeouts, text, pipeline>>

\* handleSubmit after its await, the answer parsed: onResult(data), then
\* the finally block.
Respond(k, d) ==
    /\ k \in 1 .. pending
    /\ OnResult(d)
    /\ loading' = FALSE
    /\ pending' = pending - 1
    /\ newest' = IF IsNewest(k) THEN [status |-> "answered", shown |-> TRUE]
                 ELSE [newest EXCEPT !.shown = FALSE]
    /\ UNCHANGED <<text, pipeline>>

\* handleSubmit after its await, fetch or res.json() rejected: the catch
\* block alerts, then the finally block.
Reject(k) ==
    /\ k \in 1 .. pending
    /\ loading' = FALSE
    /\ pending' = pending - 1
    /\ newest' = IF IsNewest(k) THEN [newest EXCEPT !.status = "failed"] ELSE newest
    /\ h' = Record("alert", FALSE)
    /\ UNCHANGED <<data, currentIndex, isPlaying, speed, intervalRef, intervals,
                   timeouts, text, pipeline>>

\* Grammar Transformer: the GrammarUnit, or EmptySentenceError when every
\* token was elided.
Transform ==
    /\ pipeline.stage = "annotated"
    /\ pipeline' = IF Elide(pipeline.tokens) = <<>>
                   THEN [pipeline EXCEPT !.stage = "EmptySentenceError"]
                   ELSE [pipeline EXCEPT !.stage = "transformed",
                                         !.unit = GrammarTransform(pipeline.tokens)]
    /\ UNCHANGED <<data, currentIndex, isPlaying, speed, intervalRef, intervals,
                   timeouts, form, h>>

\* Sign Resolver
Resolve ==
    /\ pipeline.stage = "transformed"
    /\ pipeline' = [pipeline EXCEPT !.stage = "resolved",
                                    !.signs = ResolveSigns(pipeline.unit)]
    /\ UNCHANGED <<data, currentIndex, isPlaying, speed, intervalRef, intervals,
                   timeouts, form, h>>

Next ==
    \/ \E d \in Responses : Load(d)
    \/ Play
    \/ Pause
    \/ NextSign
    \/ PrevSign
    \/ \E idx \in 0 .. MaxLen : GoToSign(idx)
    \/ \E ms \in Speeds : SetSpeed(ms)
    \/ Replay
    \/ \E iv \in intervals : Tick(iv)
    \/ \E t \in BagToSet(timeouts) : TimeoutFire(t)

Spec == Init /\ [][Next]_vars

\* Timers fire: every pending one-shot and the live interval are eventually
\* run by the browser's event loop.
Fairness ==
    /\ WF_vars(\E iv \in intervals : Tick(iv))
    /\ \A kind \in {"auto", "replay"} : \A st \in BOOLEAN :
          WF_vars(TimeoutFire([kind |-> kind, stale |-> st]))

\* Results are loaded and only timers act on them: no user command.
NextPlay ==
    \/ \E d \in Responses : Load(d)
    \/ \E iv \in intervals : Tick(iv)
    \/ \E t \in BagToSet(timeouts) : TimeoutFire(t)

SpecPlay == Init /\ [][NextPlay]_vars /\ Fairness

\* The controller driven through its commands seek(i) and next, for
\* every index i from just below 0 to the longest length.
NextSeek ==
    \/ \E d \in Responses : Load(d)
    \/ \E index \in -1 .. MaxLen : Seek(index)
    \/ NextSign
    \/ \E iv \in intervals : Tick(iv)
    \/ \E t \in BagToSet(timeouts) : TimeoutFire(t)

SpecSeek == Init /\ [][NextSeek]_vars

\* The page as a whole: the form sends requests, the answers are displayed
\* and played by the timers.
NextSubmit ==
    \/ \E txt \in Texts : SetText(txt)
    \/ Submit
    \/ \E k \in 1 .. MaxRequests : \E d \in Responses : Respond(k, d)
    \/ \E k \in 1 .. MaxRequests : Reject(k)
    \/ \E iv \in intervals : Tick(iv)
    \/ \E t \in BagToSet(timeouts) : TimeoutFire(t)

SpecSubmit == Init /\ [][NextSubmit]_vars

\* One run of the pipeline on every annotated token sequence.
InitPipeline ==
    /\ data = NoData
    /\ currentIndex = 0
    /\ isPlaying = FALSE
    /\ speed = 1000
    /\ intervalRef = 0
    /\ intervals = {}
    /\ timeouts = EmptyBag
    /\ text = <<>>
    /\ loading = FALSE
    /\ pending = 0
    /\ newest = NoRequest
    /\ pipeline \in {[NoRun EXCEPT !.stage = "annotated", !.tokens = ts] : ts \in TokenSeqs}
    /\ h = [op |-> "init", paused |-> FALSE, quiet |-> FALSE,
            pre |-> [currentIndex |-> 0, isPlaying |-> FALSE, speed |-> 1000],
            stale |-> FALSE, autoFired |-> 0, ticks |-> 0]

NextPipeline ==
    \/ Transform
    \/ Resolve

SpecPipeline == InitPipeline /\ [][NextPipeline]_vars

\* Characters of the single words: two letters, a digit and the apostrophe
\* that cleaning lets through.
WordChars == {"h", "e", "2", "'"}

RECURSIVE WordsUpTo(_)
WordsUpTo(n) ==
    IF n = 0 THEN {<<>>}
    ELSE LET shorter == WordsUpTo(n - 1)
         IN shorter \cup {Append(w, ch) : w \in {x \in shorter : Len(x) = n - 1}, ch \in WordChars}

Words == WordsUpTo(MaxWord) \ {<<>>}

\* One run of the pipeline on every single word.
InitWord ==
    /\ data = NoData
    /\ currentIndex = 0
    /\ isPlaying = FALSE
    /\ speed = 1000
    /\ intervalRef = 0
    /\ intervals = {}
    /\ timeouts = EmptyBag
    /\ text = <<>>
    /\ loading = FALSE
    /\ pending = 0
    /\ newest = NoRequest
    /\ pipeline \in {[NoRun EXCEPT !.stage = "annotated", !.tokens = <<AnnotatedToken(w, w)>>] :
                        w \in Words}
    /\ h = [op |-> "init", paused |-> FALSE, quiet |-> FALSE,
            pre |-> [currentIndex |-> 0, isPlaying |-> FALSE, speed |-> 1000],
            stale |-> FALSE, autoFired |-> 0, ticks |-> 0]

SpecWord == InitWord /\ [][NextPipeline]_vars

\* Loads, the timeline and the replay button, with timers that fire.
NextReplay ==
    \/ \E d \in Responses : Load(d)
    \/ \E idx \in 0 .. MaxLen : GoToSign(idx)
    \/ Replay
    \/ \E iv \in intervals : Tick(iv)
    \/ \E t \in BagToSet(timeouts) : TimeoutFire(t)

SpecReplay == Init /\ [][NextReplay]_vars /\ Fairness

\* Loads, the play and replay buttons, with timers that fire.
NextResume ==
    \/ \E d \in Responses : Load(d)
    \/ Play
    \/ Replay
    \/ \E iv \in intervals : Tick(iv)
    \/ \E t \in BagToSet(timeouts) : TimeoutFire(t)

SpecResume == Init /\ [][NextResume]_vars /\ Fairness

----------------------------------------------------------------------------
(* Vocabulary of the properties *)

signs == Signs(data)

TimerOps == {"tick", "autoStart", "replayStart"}

VisualIndices(s) == {i \in 0 .. Len(s) - 1 : At(s, i) # "space"}

\* The n-th visual index of s, counting from 0
NthVisual(s, n) ==
    CHOOSE i \in VisualIndices(s) : Cardinality({j \in VisualIndices(s) : j < i}) = n

LastVisual(s) == CHOOSE i \in VisualIndices(s) : \A j \in VisualIndices(s) : j <= i

LaterVisual(s, i) == {j \in VisualIndices(s) : j > i}
EarlierVisual(s, i) == {j \in VisualIndices(s) : j < i}

Least(S) == CHOOSE x \in S : \A y \in S : x <= y
Greatest(S) == CHOOSE x \in S : \A y \in S : x >= y

----------------------------------------------------------------------------
(* Claims *)

\* C1: once a new result has been loaded, no callback of a timer that was
\* scheduled before that load (interval tick, auto-start one-shot, replay
\* one-shot) changes currentIndex or isPlaying.
C1_StaleTimerChangesNothing ==
    (h.op \in TimerOps /\ h.stale) =>
        (currentIndex = h.pre.currentIndex /\ isPlaying = h.pre.isPlaying)

\* C2: after the pause command, and until the next play, replay or load,
\* isPlaying stays false and no timer callback changes currentIndex.
C2_PauseCancelsTimers ==
    h.paused =>
        /\ ~isPlaying
        /\ h.op \in TimerOps => currentIndex = h.pre.currentIndex

\* C3: loading a result, from any prior state, leaves the controller Paused
\* at currentIndex 0 with no live interval timer.
C3_LoadResets ==
    h.op = "load" => (currentIndex = 0 /\ ~isPlaying /\ intervals = {})

\* C3 witness: a result was loaded while the controller was Playing at a
\* later index.
C3_Witness ==
    /\ h.op = "load"
    /\ h.pre.isPlaying
    /\ h.pre.currentIndex > 0
    /\ Len(signs) > 0

\* C4 (accounting): a loaded result with signs has exactly one auto-start,
\* pending or fired, and a result without signs has none; a load cancels the
\* pending auto-start of the previous result; with no user command since the
\* load, the auto-start takes the controller from Paused at 0 to Playing, and
\* nothing else does.
C4_OneAutoStart ==
    /\ Pending(timeouts, "auto") + h.autoFired = (IF Len(signs) > 0 THEN 1 ELSE 0)
    /\ CopiesIn(AutoStart(TRUE), timeouts) = 0
    /\ (h.op = "autoStart" /\ h.quiet) =>
           /\ ~h.pre.isPlaying /\ h.pre.currentIndex = 0
           /\ isPlaying /\ currentIndex = 0
           /\ Cardinality(intervals) = 1
    /\ (h.quiet /\ isPlaying /\ ~h.pre.isPlaying) => h.op = "autoStart"

\* C4: auto-start, with only loads and timers acting.  The accounting above
\* holds in every state, and a pending auto-start fires unless a result
\* without signs supersedes it.
C4_AutoStart ==
    /\ []C4_OneAutoStart
    /\ (Pending(timeouts, "auto") > 0) ~> (h.autoFired = 1 \/ Len(signs) = 0)

\* C4 witness: the auto-start of a freshly loaded result has fired.
C4_Witness ==
    /\ h.op = "autoStart"
    /\ h.quiet
    /\ isPlaying
    /\ Len(signs) > 1

\* C5 (per tick): with only timers acting on a loaded result, after N ticks
\* the index is the N-th visual index after the first, clamped at the last
\* visual index, and the controller is Playing exactly while N is below the
\* number of visual signs.
C5_AfterNTicks ==
    h.op = "tick" =>
        LET k == Cardinality(VisualIndices(signs))
        IN /\ currentIndex = NthVisual(signs, IF h.ticks < k THEN h.ticks ELSE k - 1)
           /\ isPlaying = (h.ticks < k)

C5_Halted ==
    /\ ~isPlaying
    /\ VisualIndices(signs) # {}
    /\ currentIndex = LastVisual(signs)

\* C5: playthrough.  Every tick advances by one visual position, and playback
\* that no load interrupts halts in Paused at the last visual index.
C5_Playthrough ==
    /\ []C5_AfterNTicks
    /\ (isPlaying ~> (C5_Halted \/ h.op = "load"))

\* C5 witness: a sequence with a Space was played to its end.
C5_Witness ==
    /\ h.op = "tick"
    /\ h.ticks = 2
    /\ Len(signs) = 3
    /\ At(signs, 1) = "space"
    /\ C5_Halted

\* C6: currentIndex denotes a Word or Letter sign of the loaded sequence, or
\* is 0 when the sequence is empty.
C6_IndexOnVisualSign ==
    IF Len(signs) = 0 THEN currentIndex = 0 ELSE IsVisual(signs, currentIndex)

\* C6 witness: prev stepped back over a Space.
C6_Witness ==
    /\ h.op = "prev"
    /\ h.pre.currentIndex = 2
    /\ At(signs, 1) = "space"
    /\ currentIndex = 0

\* C7: next moves to the smallest later index that holds a non-Space sign,
\* and leaves the index unchanged, inside the sequence, when there is none.
C7_NextIsLeastLaterVisual ==
    h.op = "next" =>
        LET later == LaterVisual(signs, h.pre.currentIndex)
        IN IF later # {}
           THEN currentIndex = Least(later)
           ELSE currentIndex = h.pre.currentIndex /\ currentIndex \in 0 .. Len(signs) - 1

\* C7 witness: next skipped a Space.
C7_Witness ==
    /\ h.op = "next"
    /\ h.pre.currentIndex = 0
    /\ currentIndex = 2
    /\ At(signs, 1) = "space"

\* C8: next issued while Playing at the last visual index pauses the
\* controller and leaves currentIndex unchanged.
C8_NextAtEndPauses ==
    (h.op = "next" /\ h.pre.isPlaying /\ LaterVisual(signs, h.pre.currentIndex) = {}) =>
        (~isPlaying /\ currentIndex = h.pre.currentIndex /\ intervals = {})

\* C8 witness: next was issued while Playing at the last visual index of a
\* sequence of several signs.
C8_Witness ==
    /\ h.op = "next"
    /\ h.pre.isPlaying
    /\ h.pre.currentIndex = LastVisual(signs)
    /\ h.pre.currentIndex > 0

\* C9: prev from an index i > 0 moves to the largest earlier index that holds
\* a non-Space sign; the index never goes below 0; prev at index 0 changes
\* neither the index nor isPlaying nor the speed.
C9_PrevIsGreatestEarlierVisual ==
    /\ currentIndex >= 0
    /\ h.op = "prev" =>
          IF h.pre.currentIndex > 0
          THEN /\ EarlierVisual(signs, h.pre.currentIndex) # {}
               /\ currentIndex = Greatest(EarlierVisual(signs, h.pre.currentIndex))
          ELSE /\ currentIndex = 0
               /\ isPlaying = h.pre.isPlaying
               /\ speed = h.pre.speed

\* C9 witness: prev was issued at index 0 while Playing.
C9_Witness ==
    /\ h.op = "prev"
    /\ h.pre.currentIndex = 0
    /\ h.pre.isPlaying
    /\ Len(signs) > 1

\* C10: in every Playing state, the interval callback and the next command
\* lead to the same currentIndex and isPlaying.
C10_TickEqualsNext ==
    \A iv \in intervals :
        LET byTick == Commit(Comp, tick(Comp, iv), data)
            byNext == Commit(Comp, nextSign(Comp, signs), data)
        IN /\ byTick.currentIndex = byNext.currentIndex
           /\ byTick.isPlaying = byNext.isPlaying

\* C10 witness: Playing at the last visual index of a sequence of several
\* signs, where both the tick and next stop playback.
C10_Witness ==
    /\ isPlaying
    /\ intervals # {}
    /\ currentIndex = LastVisual(signs)
    /\ currentIndex > 0
    /\ h.op = "tick"

\* C11 (the command): replay leaves the controller Paused at index 0 with no
\* live interval and its one-shot pending; the one-shot, firing on that
\* state, makes the controller Playing at index 0 with one live interval.
C11_ReplayStep ==
    /\ h.op = "replay" =>
          /\ ~isPlaying /\ currentIndex = 0 /\ intervals = {}
          /\ Pending(timeouts, "replay") > 0
    /\ (h.op = "replayStart" /\ ~h.pre.isPlaying /\ h.pre.currentIndex = 0 /\ Len(signs) > 0) =>
          /\ isPlaying /\ currentIndex = 0
          /\ Cardinality(intervals) = 1

\* C11: replay.  The step properties above hold in every state, and after
\* replay the controller is Playing again unless a load intervenes.
C11_Replay ==
    /\ []C11_ReplayStep
    /\ (h.op = "replay") ~> (isPlaying \/ h.op = "load")

\* C11 witness: the replay one-shot fired on the state replay left, after
\* replay was issued away from index 0.
C11_Witness ==
    /\ h.op = "replayStart"
    /\ ~h.stale
    /\ ~h.pre.isPlaying
    /\ h.pre.currentIndex = 0
    /\ isPlaying
    /\ Len(signs) = 3

\* C12: a seek to an index inside the sequence sets currentIndex to exactly
\* that index, with no Space-skipping, and leaves isPlaying, speed, the live
\* interval and the pending one-shots as they were; the timeline offers the
\* seek only for signs that are not a Space.
C12_SeekFrame ==
    [][\A idx \in 0 .. MaxLen :
          GoToSign(idx) =>
              /\ IsVisual(signs, idx)
              /\ currentIndex' = idx
              /\ isPlaying' = isPlaying
              /\ speed' = speed
              /\ intervals' = intervals
              /\ intervalRef' = intervalRef
              /\ timeouts' = timeouts]_vars

\* C12 witness: while Playing at index 0 of a three-sign sequence whose
\* middle sign is a Space, a seek moved the index to 2 and playback goes on.
C12_Witness ==
    /\ h.op = "seek" /\ h.pre.isPlaying /\ h.pre.currentIndex = 0
    /\ Len(signs) = 3 /\ At(signs, 1) = "space"
    /\ currentIndex = 2 /\ isPlaying /\ intervals # {}

C14_InFlightIntervalKept ==
    (h.op = "setSpeed" /\ h.pre.isPlaying) =>
        \E iv \in intervals : iv.speed = h.pre.speed

\* C15: setSpeed changes only the speed: currentIndex and isPlaying are as
\* before, and a controller that was Playing is still Playing with exactly
\* one live interval, which runs at the new speed.
C15_SetSpeedFrame ==
    h.op = "setSpeed" =>
        /\ currentIndex = h.pre.currentIndex
        /\ isPlaying = h.pre.isPlaying
        /\ speed # h.pre.speed
        /\ h.pre.isPlaying =>
              /\ Cardinality(intervals) = 1
              /\ \A iv \in intervals : iv.speed = speed /\ iv.id = intervalRef

\* C15 witness: the speed was changed while Playing at a later index.
C15_Witness ==
    /\ h.op = "setSpeed" /\ h.pre.isPlaying /\ h.pre.currentIndex = 2
    /\ isPlaying /\ speed = 400 /\ intervals # {}

\* A failed Translate call has just ended: the request was rejected, or its
\* answer was an error body.
TranslateFailed ==
    h.op = "alert" \/ (h.op = "load" /\ data.kind = "error")

\* C16: when a Translate call has failed, the controller is Idle: no result
\* is displayed and nothing is playing, whatever was displayed before.
C16_FailedTranslationIdle ==
    TranslateFailed => (~HasControls /\ ~isPlaying)

C18_NothingCarriesOver ==
    h.op = "load" => (currentIndex = 0 /\ ~isPlaying /\ speed = 1000)

\* How often token tk occurs in ts
Occurrences(ts, tk) == Cardinality({i \in 1 .. Len(ts) : ts[i] = tk})

\* ts without the positions in drop, order kept
RECURSIVE Without(_, _)
Without(ts, drop) ==
    IF ts = <<>> THEN <<>>
    ELSE LET n == Len(ts)
             front == Without(SubSeq(ts, 1, n - 1), drop)
         IN IF n \in drop THEN front ELSE Append(front, ts[n])

C20_SpaceWellFormed ==
    pipeline.stage = "resolved" =>
        LET ss == pipeline.signs
        IN /\ ss # <<>> => (ss[1].type # "space" /\ ss[Len(ss)].type # "space")
           /\ \A i \in 1 .. Len(ss) - 1 :
                 ~(ss[i].type = "space" /\ ss[i + 1].type = "space")

\* C20 witness: a unit whose middle token yields no sign was resolved to
\* signs with one Space in them.
C20_Witness ==
    /\ pipeline.stage = "resolved"
    /\ Len(pipeline.unit) = 3
    /\ TokenSigns(pipeline.unit[2]) = <<>>
    /\ TokenSigns(pipeline.unit[1]) # <<>>
    /\ TokenSigns(pipeline.unit[3]) # <<>>
    /\ Cardinality({i \in 1 .. Len(pipeline.signs) : pipeline.signs[i].type = "space"}) = 1

\* C21: for a word with no entry in either dataset the resolver emits one
\* Letter sign per alphanumeric character of the word, upper-cased, in
\* left-to-right order, and nothing for the other characters.
C21_LetterFallbackExhaustive ==
    (/\ pipeline.stage = "resolved"
     /\ Len(pipeline.unit) = 1
     /\ UpperSeq(pipeline.unit[1].lemma) \notin General \cup Training) =>
        LET w == UpperSeq(pipeline.unit[1].surface)
            dropped == {i \in 1 .. Len(w) : ~IsAlphanumeric(w[i])}
            retained == Without(w, dropped)
        IN /\ Len(pipeline.signs) = Len(retained)
           /\ \A k \in 1 .. Len(retained) :
                 /\ pipeline.signs[k].type = "letter"
                 /\ pipeline.signs[k].label = <<retained[k]>>

\* C21 witness: the word 2'e, in no dataset, was resolved to the letters
\* 2 and E.
C21_Witness ==
    /\ pipeline.stage = "resolved"
    /\ pipeline.unit = <<AnnotatedToken(<<"2", "'", "e">>, <<"2", "'", "e">>)>>
    /\ Len(pipeline.signs) = 2
    /\ pipeline.signs[1].label = <<"2">> /\ pipeline.signs[2].label = <<"E">>

\* C22: Idle is never Playing: whenever isPlaying is true, a result with a
\* non-empty sign sequence is loaded.
C22_PlayingHasSigns ==
    isPlaying => (data.kind = "result" /\ Len(signs) > 0)

\* The controller is at the last visual index of a loaded sequence.
AtLastVisual(index) ==
    VisualIndices(signs) # {} /\ index = LastVisual(signs)

\* C23 (steps): play from Paused at the last visual index gives Playing at
\* that index with one live interval; a tick of that interval gives Paused
\* with the index unchanged and no interval; replay from there gives Paused
\* at 0 with the replay one-shot pending.
C23_EndSteps ==
    /\ (h.op = "play" /\ AtLastVisual(h.pre.currentIndex)) =>
          /\ isPlaying /\ currentIndex = h.pre.currentIndex
          /\ Cardinality(intervals) = 1
    /\ (h.op = "tick" /\ ~h.stale /\ h.pre.isPlaying /\ AtLastVisual(h.pre.currentIndex)) =>
          /\ ~isPlaying /\ currentIndex = h.pre.currentIndex
          /\ intervals = {}
    /\ (h.op = "replay" /\ AtLastVisual(h.pre.currentIndex)) =>
          /\ ~isPlaying /\ currentIndex = 0
          /\ Pending(timeouts, "replay") > 0

\* C23: the end of a playthrough is not terminal.  At Paused at the last
\* visual index the play button is offered; the steps are as above; Playing
\* at the last visual index is followed by Paused, and a replay is followed
\* by Playing (or by a load).
C23_EndNotTerminal ==
    /\ []C23_EndSteps
    /\ []((~isPlaying /\ AtLastVisual(currentIndex)) => ENABLED Play)
    /\ (isPlaying /\ AtLastVisual(currentIndex)) ~> ~isPlaying
    /\ (h.op = "replay" /\ AtLastVisual(h.pre.currentIndex)) ~> (isPlaying \/ h.op = "load")

\* C23 witness: after play at the last visual index of a three-sign
\* sequence, the first tick paused the controller at that index.
C23_Witness ==
    /\ h.op = "tick" /\ h.ticks = 1 /\ ~h.stale
    /\ h.pre.isPlaying /\ Len(signs) = 3 /\ h.pre.currentIndex = 2
    /\ ~isPlaying /\ currentIndex = 2

\* C24: single timer: at most one interval is live, and it is the one
\* intervalRef holds; one is live exactly when isPlaying is true and the
\* loaded sign sequence is not empty; play() while already Playing changes
\* nothing.
C24_SingleTimer ==
    /\ Cardinality(intervals) <= 1
    /\ \A iv \in intervals : iv.id = intervalRef /\ iv.speed = speed /\ iv.signs = signs
    /\ (intervals # {}) <=> (isPlaying /\ Len(signs) > 0)
    /\ (h.op \in {"autoStart", "replayStart"} /\ h.pre.isPlaying) =>
          (isPlaying /\ currentIndex = h.pre.currentIndex)

\* C24 witness: a one-shot called play() while the controller was already
\* Playing at a later index, and one interval is live.
C24_Witness ==
    /\ h.op \in {"autoStart", "replayStart"}
    /\ h.pre.isPlaying /\ h.pre.currentIndex > 0
    /\ isPlaying /\ Cardinality(intervals) = 1

\* C25: next and prev are inverse on visual indices.  After next from an
\* index i of a non-Space sign that has a later non-Space sign, prev gives
\* i again; after prev from an index i of a non-Space sign that has an
\* earlier non-Space sign, next gives i again.
C25_NextPrevInverse ==
    /\ (/\ h.op = "next"
        /\ IsVisual(signs, h.pre.currentIndex)
        /\ LaterVisual(signs, h.pre.currentIndex) # {}) =>
          /\ currentIndex # h.pre.currentIndex
          /\ prevSign(Comp, signs).currentIndex = h.pre.currentIndex
    /\ (/\ h.op = "prev"
        /\ IsVisual(signs, h.pre.currentIndex)
        /\ EarlierVisual(signs, h.pre.currentIndex) # {}) =>
          /\ currentIndex # h.pre.currentIndex
          /\ nextSign(Comp, signs).currentIndex = h.pre.currentIndex

\* C25 witness: next moved from index 0 over a Space to index 2, from where
\* prev leads back to 0.
C25_Witness ==
    /\ h.op = "next" /\ h.pre.currentIndex = 0
    /\ Len(signs) = 3 /\ At(signs, 1) = "space"
    /\ currentIndex = 2
    /\ prevSign(Comp, signs).currentIndex = 0

\* C26: latest request wins.  Once every submitted request has completed
\* and the most recently submitted one was answered, the displayed result
\* is its answer, in whatever order the answers arrived; and the loading
\* flag is false only when no request is in flight.
C26_LatestRequestWins ==
    /\ (pending = 0 /\ newest.status = "answered") => newest.shown
    /\ ~loading => pending = 0

====
